---- MODULE Spec2Model ----
(***************************************************************************)
(* Model of the multi-agent consultation stack:                            *)
(*   - the Response Classifier (_normalizar, _nivel_riesgo,                *)
(*     _extraer_claves) of task_16_capitan_enterprise_agent.py,            *)
(*   - the Capability Host (task_16_puente_enterprise_server.py),          *)
(*   - the Capability Client (consultar_puente_enterprise_mcp),            *)
(*   - the Decision Orchestrator (_run_capitan).                           *)
(*                                                                         *)
(* A text is a sequence of one-character strings, so that case folding,    *)
(* accent stripping, substring search and line splitting are computed as   *)
(* the code computes them.  Names, ids and error messages, which the code  *)
(* only compares and copies, are atomic strings.                           *)
(***************************************************************************)
EXTENDS Naturals, Sequences, FiniteSets

(***************************************************************************)
(* Bounds of the model.                                                    *)
(***************************************************************************)
\* longest list of tool calls a first-turn response carries
MaxCalls == 2
\* longest `especialistas` list given to a direct consultation
MaxWanted == 2
\* most call_tool requests a Host process is sent when it is driven directly
MaxPeticiones == 2
\* most pieces a text given to the classifier is made of
MaxTrozos == 3
\* most lines of a configuration file
MaxLineasEnv == 3

(***************************************************************************)
(* Generic helpers.                                                        *)
(***************************************************************************)
Range(s) == {s[j] : j \in 1..Len(s)}

SeqsUpTo(S, n) == UNION {[1..m -> S] : m \in 0..n}

RECURSIVE Concat(_)
Concat(ss) == IF ss = <<>> THEN <<>> ELSE Head(ss) \o Concat(Tail(ss))

RECURSIVE SelectIdx(_, _)
\* the indices of s, in increasing order, that belong to the set I
SelectIdx(n, I) ==
    IF n = 0 THEN <<>>
    ELSE IF n \in I THEN Append(SelectIdx(n - 1, I), n) ELSE SelectIdx(n - 1, I)

Prefix(s, n) == SubSeq(s, 1, IF Len(s) < n THEN Len(s) ELSE n)

Contains(sub, t) ==
    \E j \in 0..(Len(t) - Len(sub)) : SubSeq(t, j + 1, j + Len(sub)) = sub

StartsWith(t, pre) == Len(pre) <= Len(t) /\ SubSeq(t, 1, Len(pre)) = pre

(***************************************************************************)
(* Response Classifier.                                                    *)
(***************************************************************************)
\* str.upper(): the lower-case letters of the modelled alphabet and their
\* upper-case forms; any other character is left as it is.  The sharp s
\* upper-cases to two characters, as in Python.
Minusculas ==
    <<"a", "b", "c", "d", "e", "f", "g", "h", "i", "j", "k", "l", "m", "n", "o",
      "p", "q", "r", "s", "t", "u", "v", "w", "x", "y", "z",
      "á", "é", "í", "ó", "ú", "ä", "ë", "ï", "ö", "ü",
      "à", "è", "ì", "ò", "ù", "ñ", "ß">>

Mayusculas ==
    << <<"A">>, <<"B">>, <<"C">>, <<"D">>, <<"E">>, <<"F">>, <<"G">>, <<"H">>,
       <<"I">>, <<"J">>, <<"K">>, <<"L">>, <<"M">>, <<"N">>, <<"O">>, <<"P">>,
       <<"Q">>, <<"R">>, <<"S">>, <<"T">>, <<"U">>, <<"V">>, <<"W">>, <<"X">>,
       <<"Y">>, <<"Z">>,
       <<"Á">>, <<"É">>, <<"Í">>, <<"Ó">>, <<"Ú">>, <<"Ä">>, <<"Ë">>, <<"Ï">>,
       <<"Ö">>, <<"Ü">>, <<"À">>, <<"È">>, <<"Ì">>, <<"Ò">>, <<"Ù">>, <<"Ñ">>,
       <<"S", "S">> >>

upper_char(c) ==
    IF \E j \in 1..Len(Minusculas) : Minusculas[j] = c
    THEN Mayusculas[CHOOSE j \in 1..Len(Minusculas) : Minusculas[j] = c]
    ELSE <<c>>

upper(s) == Concat([j \in 1..Len(s) |-> upper_char(s[j])])

\* the translation table of _quitar_acentos_simple
tabla ==
    [c \in {"Á", "É", "Í", "Ó", "Ú", "Ä", "Ë", "Ï", "Ö", "Ü",
            "À", "È", "Ì", "Ò", "Ù", "Ñ"} |->
        CASE c \in {"Á", "Ä", "À"} -> "A"
          [] c \in {"É", "Ë", "È"} -> "E"
          [] c \in {"Í", "Ï", "Ì"} -> "I"
          [] c \in {"Ó", "Ö", "Ò"} -> "O"
          [] c \in {"Ú", "Ü", "Ù"} -> "U"
          [] c = "Ñ" -> "N"]

quitar_acentos_simple(s) ==
    [j \in 1..Len(s) |-> IF s[j] \in DOMAIN tabla THEN tabla[s[j]] ELSE s[j]]

\* normalizar with its two steps in the other order: accents are stripped
\* before the text is upper-cased
normalizar_ordenInverso(texto) == upper(quitar_acentos_simple(texto))

normalizar(texto) == quitar_acentos_simple(upper(texto))

CRITICO == <<"C", "R", "I", "T", "I", "C", "O">>
CRITICA == <<"C", "R", "I", "T", "I", "C", "A">>
ALTO == <<"A", "L", "T", "O">>
MEDIO == <<"M", "E", "D", "I", "O">>
BAJO == <<"B", "A", "J", "O">>

\* nivel_riesgo with the tests of lines 45-50 in the reverse order
nivel_riesgo_bajoPrimero(texto) ==
    LET t == normalizar(texto)
    IN  IF Contains(CRITICO, t) \/ Contains(CRITICA, t) THEN "CRÍTICO"
        ELSE IF Contains(BAJO, t) THEN "BAJO"
        ELSE IF Contains(MEDIO, t) THEN "MEDIO"
        ELSE IF Contains(ALTO, t) THEN "ALTO"
        ELSE "NO ESPECIFICADO"

nivel_riesgo(texto) ==
    LET t == normalizar(texto)
    IN  IF Contains(CRITICO, t) \/ Contains(CRITICA, t) THEN "CRÍTICO"
        ELSE IF Contains(ALTO, t) THEN "ALTO"
        ELSE IF Contains(MEDIO, t) THEN "MEDIO"
        ELSE IF Contains(BAJO, t) THEN "BAJO"
        ELSE "NO ESPECIFICADO"

\* characters str.strip() removes, and those str.splitlines() splits at
Whitespace == {" ", "\t", "\n", "\r", "\f"}
LineBreaks == {"\n", "\r", "\f"}

RECURSIVE lstrip(_)
lstrip(s) == IF s # <<>> /\ Head(s) \in Whitespace THEN lstrip(Tail(s)) ELSE s

RECURSIVE rstrip(_)
rstrip(s) ==
    IF s # <<>> /\ s[Len(s)] \in Whitespace
    THEN rstrip(SubSeq(s, 1, Len(s) - 1)) ELSE s

strip(s) == rstrip(lstrip(s))

RECURSIVE splitlines(_)
\* the lines of s; a line break ends a line, and text after the last break
\* is a line of its own when it is not empty
splitlines(s) ==
    IF s = <<>> THEN <<>>
    ELSE LET brk == {j \in 1..Len(s) : s[j] \in LineBreaks}
         IN  IF brk = {} THEN <<s>>
             ELSE LET p == CHOOSE j \in brk : \A q \in brk : j <= q
                      \* "\r\n" is one line break
                      w == IF s[p] = "\r" /\ p < Len(s) /\ s[p + 1] = "\n"
                           THEN 2 ELSE 1
                  IN  <<SubSeq(s, 1, p - 1)>>
                      \o splitlines(SubSeq(s, p + w, Len(s)))

PrefijosClave ==
    { <<"R", "I", "E", "S", "G", "O", ":">>,
      <<"R", "E", "C", "O", "M", "E", "N", "D", "A", "C", "I", "O", "N", ":">>,
      <<"J", "U", "S", "T", "I", "F", "I", "C", "A", "C", "I", "O", "N", ":">>,
      <<"C", "O", "N", "C", "L", "U", "S", "I", "O", "N", ":">>,
      <<"A", "C", "C", "I", "O", "N", ":">>,
      <<"A", "C", "C", "I", "O", "N", " ">> }

\* extraer_claves without the filter of lines 59-72: the first lines are
\* returned whether they start with a prefix or not
extraer_claves_sinFiltro(texto, max_lineas) ==
    LET todas == splitlines(texto)
        idx == SelectIdx(Len(todas), {q \in 1..Len(todas) : strip(todas[q]) # <<>>})
        lineas == [j \in 1..Len(idx) |-> strip(todas[idx[j]])]
    IN  Prefix(lineas, max_lineas)

extraer_claves(texto, max_lineas) ==
    LET todas == splitlines(texto)
        lineas == [j \in 1..Len(SelectIdx(Len(todas),
                                 {q \in 1..Len(todas) : strip(todas[q]) # <<>>}))
                     |-> strip(todas[SelectIdx(Len(todas),
                                 {q \in 1..Len(todas) : strip(todas[q]) # <<>>})[j]])]
        esClave(l) == \E pre \in PrefijosClave : StartsWith(normalizar(l), pre)
        idx == SelectIdx(Len(lineas), {q \in 1..Len(lineas) : esClave(lineas[q])})
        claves == [j \in 1..Len(idx) |-> lineas[idx[j]]]
    IN  IF lineas = <<>> THEN <<>>
        ELSE IF claves # <<>> THEN Prefix(claves, max_lineas)
        ELSE Prefix(lineas, max_lineas)

(***************************************************************************)
(* Capability Host (task_16_puente_enterprise_server.py).                  *)
(***************************************************************************)
\* the registry, in the order the dictionary is built: key and agent name
especialistas_puente ==
    << [clave |-> "Oficial de Ciencias", name |-> "Oficial de Ciencias - Enterprise"],
       [clave |-> "Jefe de Ingeniería", name |-> "Jefe de Ingeniería - Enterprise"],
       [clave |-> "Jefe de Seguridad", name |-> "Jefe de Seguridad - Enterprise"],
       [clave |-> "Oficial Médico", name |-> "Oficial Médico - Enterprise"] >>

\* lookup by tool name: the position of the agent in the registry
agentes_por_nombre ==
    [n \in {especialistas_puente[j].name : j \in 1..Len(especialistas_puente)} |->
        CHOOSE j \in 1..Len(especialistas_puente) : especialistas_puente[j].name = n]

\* the names list_tools answers, one per registered specialist
listar_herramientas ==
    [j \in 1..Len(especialistas_puente) |-> especialistas_puente[j].name]

\* server lines 21-95: the two module-level tables of a Host process, as
\* they are built when it starts
TablasAlArrancar ==
    [especialistas_puente |-> especialistas_puente,
     agentes_por_nombre |-> agentes_por_nombre]

\* "Herramienta desconocida: <tool_name>"; the name is embedded as one item
HerramientaDesconocida(tool_name) ==
    <<"H", "e", "r", "r", "a", "m", "i", "e", "n", "t", "a", " ",
      "d", "e", "s", "c", "o", "n", "o", "c", "i", "d", "a", ":", " ", tool_name>>

\* Texts the text-generation collaborator answers in the model.
R_ALTO == <<"R", "I", "E", "S", "G", "O", ":", " ", "A", "L", "T", "O">>
R_MEDIO == <<"R", "i", "e", "s", "g", "o", " ", "m", "e", "d", "i", "o", "\n",
             "A", "c", "c", "i", "ó", "n", ":", " ", "u", "n", "a">>
R_BAJO == <<" ", "t", "o", "d", "o", " ", "e", "n", " ", "o", "r", "d", "e", "n",
            ",", " ", "b", "a", "j", "o", " ">>
Replies == {R_ALTO, R_MEDIO, R_BAJO}

\* What one run of a collaborator can end in: a reply, or a failure that
\* reaches the caller of call_tool as an exception with a message.
Salidas ==
    {[ok |-> TRUE, text |-> r, error |-> ""] : r \in Replies}
    \cup {[ok |-> FALSE, text |-> <<>>, error |-> "RemoteError"]}

\* the outcomes in which the collaborator's run fails
Fallo == {s \in Salidas : ~s.ok}

\* ejecutar_herramienta without the check of lines 121-123
ejecutar_herramienta_sinComprobar(tool_name, salida) == << salida.text >>

\* ejecutar_herramienta: the content list the Host answers when the
\* collaborator's run ends in `salida` (a reply)
ejecutar_herramienta(tool_name, salida) ==
    IF tool_name \notin DOMAIN agentes_por_nombre
    THEN << HerramientaDesconocida(tool_name) >>
    ELSE << salida.text >>

\* ejecutar_herramienta, lines 120-126: the collaborator runs the Host starts
\* for a request, added to the runs `inv` it started before
Invocar(inv, tool_name, t) ==
    IF tool_name \notin DOMAIN agentes_por_nombre
    THEN inv
    ELSE Append(inv, [agente |-> agentes_por_nombre[tool_name],
                      task |-> IF t = "<None>" THEN "" ELSE t])

\* what the caller of call_tool gets: the content list, or the failure of
\* the collaborator's run as an exception
ResultadoDe(tool_name, salida) ==
    IF tool_name \in DOMAIN agentes_por_nombre /\ ~salida.ok
    THEN [tipo |-> "error", content |-> <<>>, error |-> salida.error]
    ELSE [tipo |-> "contenido", content |-> ejecutar_herramienta(tool_name, salida),
          error |-> ""]

(***************************************************************************)
(* Capability Client (consultar_puente_enterprise_mcp).                    *)
(***************************************************************************)
\* especialistas = None
Ninguno == [dado |-> FALSE, lista |-> <<>>]
Lista(l) == [dado |-> TRUE, lista |-> l]

\* str(resultado) of a result without content
ReprSinContenido == <<"content=[]">>

RECURSIVE JoinLines(_)
JoinLines(partes) ==
    IF partes = <<>> THEN <<>>
    ELSE IF Len(partes) = 1 THEN partes[1]
    ELSE partes[1] \o <<"\n">> \o JoinLines(Tail(partes))

\* lines 121-130: the text of a call_tool result
TextoDeResultado(content) ==
    IF content # <<>>
    THEN LET idx == SelectIdx(Len(content), {q \in 1..Len(content) : content[q] # <<>>})
         IN  strip(JoinLines([j \in 1..Len(idx) |-> content[idx[j]]]))
    ELSE ReprSinContenido

\* Resolver without the fallback of line 110: an `especialistas` list that
\* matches nothing leaves nothing to consult
Resolver_sinRespaldo(esp, disponibles) ==
    IF esp.dado /\ esp.lista # <<>>
    THEN LET idx == SelectIdx(Len(esp.lista),
                       {q \in 1..Len(esp.lista) : esp.lista[q] \in Range(disponibles)})
         IN  [j \in 1..Len(idx) |-> esp.lista[idx[j]]]
    ELSE disponibles

\* lines 107-112: the capabilities to consult, in the order they are consulted
Resolver(esp, disponibles) ==
    IF esp.dado /\ esp.lista # <<>>
    THEN LET idx == SelectIdx(Len(esp.lista),
                       {q \in 1..Len(esp.lista) : esp.lista[q] \in Range(disponibles)})
             solicitadas == [j \in 1..Len(idx) |-> esp.lista[idx[j]]]
         IN  IF solicitadas # <<>> THEN solicitadas ELSE disponibles
    ELSE disponibles

\* lines 132-139
EntradaRespuesta(tool_name, texto) ==
    [especialista |-> tool_name,
     riesgo_detectado |-> nivel_riesgo(texto),
     claves |-> extraer_claves(texto, 4),
     respuesta |-> texto]

\* line 141
EntradaError(tool_name, e) == [especialista |-> tool_name, error |-> e]

\* lines 143-147
Payload(h, r, e) == [herramientas_disponibles |-> h, respuestas |-> r, errores |-> e]

(***************************************************************************)
(* State.                                                                  *)
(***************************************************************************)
VARIABLES
    \* Decision Orchestrator (_run_capitan)
    pc,            \* position of the run
    config,        \* which of the three required settings are present
    messages,      \* the message list
    msg1,          \* the first-turn message: content and tool_calls
    ci,            \* index of the tool call being handled
    peticiones,    \* the chat-completion requests sent so far
    msg2,          \* the second-turn message
    salida,        \* the text the run returns
    \* Capability Client (consultar_puente_enterprise_mcp)
    cst,           \* position of the consultation
    task, especialistas,
    herramientas_disponibles, a_consultar, k,
    respuestas, errores,
    retorno,       \* what the consultation ended in
    \* environment
    mundo,         \* per capability, what its collaborator can answer
    procesos,      \* Host processes alive
    llamadas,      \* call_tool requests the current Host process has answered
    consultas,     \* consultations started in this run
    solicitudes,   \* call_tool requests the current Host process has received
    invocaciones,  \* runs of a collaborator the current Host process started
    resultado,     \* what the last call_tool ended in for its caller
    colgado,       \* the Host process has stopped answering
    tablas,        \* the Host's registry and its lookup by name
    \* Response Classifier applied on its own
    clasif,        \* the text given, and what each function made of it
    \* configuration file loader (_cargar_env) applied on its own
    entorno        \* the file, the lines left to read, and os.environ

orqVars == <<pc, config, messages, msg1, ci, peticiones, msg2, salida>>
cliVars == <<cst, task, especialistas, herramientas_disponibles, a_consultar, k,
             respuestas, errores, retorno>>
hostVars == <<solicitudes, invocaciones, resultado, colgado, tablas>>
envVars == <<mundo, procesos, llamadas, consultas, hostVars, clasif, entorno>>
vars == <<orqVars, cliVars, envVars>>

\* an absent value (None, a missing key)
NoDato == "<None>"

Nombres == Range(listar_herramientas)

SinRetorno == [tipo |-> "nada", payload |-> Payload(<<>>, <<>>, <<>>), error |-> ""]
Reporte(p) == [tipo |-> "reporte", payload |-> p, error |-> ""]
Excepcion(e) == [tipo |-> "excepcion", payload |-> Payload(<<>>, <<>>, <<>>), error |-> e]

\* what a call_tool ends in for its caller: a result with a content list, or
\* an exception
SinResultado == [tipo |-> "nada", content |-> <<>>, error |-> ""]

\* os.environ without a variable
EnvironVacio == [key \in {} |-> <<>>]

\* the loader has not been called
SinEntorno ==
    [fase |-> "nada", existe |-> FALSE, archivo |-> <<>>, lineas |-> <<>>,
     inicial |-> EnvironVacio, environ |-> EnvironVacio]

\* the classifier has been given nothing
SinClasificar ==
    [fase |-> "nada", texto |-> <<>>, max_lineas |-> 0, normalizado |-> <<>>,
     renormalizado |-> <<>>, nivel |-> "", nivel_normalizado |-> "", claves |-> <<>>]

(***************************************************************************)
(* Capability Client: one consultation, step by step.                      *)
(***************************************************************************)
\* lines 76-98: the call starts
IniciarConsulta(t, esp) ==
    /\ cst' = "conectando"
    /\ task' = t
    /\ especialistas' = esp
    /\ herramientas_disponibles' = <<>>
    /\ a_consultar' = <<>>
    /\ k' = 0
    /\ respuestas' = <<>>
    /\ errores' = <<>>
    /\ retorno' = SinRetorno
    /\ consultas' = consultas + 1

\* lines 100-102: spawn the Host, open the session, initialize
Conectar ==
    /\ cst = "conectando"
    /\ \/ /\ cst' = "listando"
          /\ procesos' = procesos + 1
          /\ llamadas' = <<>>
          /\ solicitudes' = <<>>
          /\ invocaciones' = <<>>
          /\ resultado' = SinResultado
          /\ colgado' = FALSE
          /\ tablas' = TablasAlArrancar
          /\ UNCHANGED retorno
       \/ /\ cst' = "excepcion"
          /\ retorno' = Excepcion("ConnectError")
          /\ UNCHANGED <<procesos, llamadas, hostVars>>
    /\ UNCHANGED <<task, especialistas, herramientas_disponibles, a_consultar, k,
                   respuestas, errores, mundo, consultas, clasif, entorno, orqVars>>

\* Listar without the context managers of lines 100-101: when list_tools
\* raises, the Host process is left running
Listar_sinCerrar ==
    /\ cst = "listando"
    /\ \/ /\ herramientas_disponibles' = listar_herramientas
          /\ a_consultar' = Resolver(especialistas, listar_herramientas)
          /\ k' = 1
          /\ cst' = "llamando"
          /\ UNCHANGED retorno
       \/ /\ cst' = "excepcion"
          /\ retorno' = Excepcion("ListToolsError")
          /\ UNCHANGED <<herramientas_disponibles, a_consultar, k>>
    /\ UNCHANGED <<task, especialistas, respuestas, errores, mundo, procesos, llamadas,
                   consultas, hostVars, clasif, entorno, orqVars>>

\* lines 104-112: discovery and the resolution of the invocation list
Listar ==
    /\ cst = "listando"
    /\ \/ /\ herramientas_disponibles' = listar_herramientas
          /\ a_consultar' = Resolver(especialistas, listar_herramientas)
          /\ k' = 1
          /\ cst' = "llamando"
          /\ UNCHANGED <<retorno, procesos>>
       \/ \* list_tools raises: the session and the process are torn down
          /\ cst' = "excepcion"
          /\ retorno' = Excepcion("ListToolsError")
          /\ procesos' = procesos - 1
          /\ UNCHANGED <<herramientas_disponibles, a_consultar, k>>
    /\ UNCHANGED <<task, especialistas, respuestas, errores, mundo, llamadas,
                   consultas, hostVars, clasif, entorno, orqVars>>

\* Solicitar sending every remaining request at once (the calls gathered
\* instead of awaited one by one)
Solicitar_todasALaVez ==
    /\ cst = "llamando"
    /\ k <= Len(a_consultar)
    /\ solicitudes' = solicitudes \o
          [j \in 1..(Len(a_consultar) - Len(solicitudes)) |->
              [name |-> a_consultar[Len(solicitudes) + j], task |-> task]]
    /\ cst' = "esperando"
    /\ UNCHANGED <<task, especialistas, herramientas_disponibles, a_consultar, k,
                   respuestas, errores, retorno, mundo, procesos, llamadas, consultas,
                   invocaciones, resultado, colgado, clasif, entorno, tablas, orqVars>>

\* lines 114-119: the call_tool request of one iteration is sent
Solicitar ==
    /\ cst = "llamando"
    /\ k <= Len(a_consultar)
    /\ solicitudes' = Append(solicitudes, [name |-> a_consultar[k], task |-> task])
    /\ cst' = "esperando"
    /\ UNCHANGED <<task, especialistas, herramientas_disponibles, a_consultar, k,
                   respuestas, errores, retorno, mundo, procesos, llamadas, consultas,
                   invocaciones, resultado, colgado, clasif, entorno, tablas, orqVars>>

\* the Host process stops answering while a call is pending; line 116 awaits
\* the answer without a timeout
Colgar ==
    /\ cst = "esperando"
    /\ ~colgado
    /\ colgado' = TRUE
    /\ UNCHANGED <<cliVars, mundo, procesos, llamadas, consultas, solicitudes,
                   invocaciones, resultado, clasif, entorno, tablas, orqVars>>

\* Llamar with the try of line 115 around the whole loop: the first failing
\* call ends the loop
Llamar_abortaEnError ==
    /\ cst = "esperando"
    /\ ~colgado
    /\ LET tool_name == a_consultar[k] IN
       \E s \in mundo[tool_name] :
          /\ llamadas' = Append(llamadas, [name |-> tool_name, task |-> task, ok |-> s.ok])
          /\ invocaciones' = Invocar(invocaciones, tool_name, task)
          /\ resultado' = ResultadoDe(tool_name, s)
          /\ IF s.ok
             THEN /\ respuestas' = Append(respuestas,
                        EntradaRespuesta(tool_name,
                            TextoDeResultado(ejecutar_herramienta(tool_name, s))))
                  /\ k' = k + 1
                  /\ UNCHANGED errores
             ELSE /\ errores' = Append(errores, EntradaError(tool_name, s.error))
                  /\ k' = Len(a_consultar) + 1
                  /\ UNCHANGED respuestas
    /\ cst' = "llamando"
    /\ UNCHANGED <<task, especialistas, herramientas_disponibles, a_consultar,
                   retorno, mundo, procesos, consultas, solicitudes, colgado, clasif, entorno, tablas,
                   orqVars>>

\* Llamar without the try of lines 115-141: a failing call leaves the
\* consultation as an exception
Llamar_sinTry ==
    /\ cst = "esperando"
    /\ ~colgado
    /\ LET tool_name == a_consultar[k] IN
       \E s \in mundo[tool_name] :
          /\ llamadas' = Append(llamadas, [name |-> tool_name, task |-> task, ok |-> s.ok])
          /\ invocaciones' = Invocar(invocaciones, tool_name, task)
          /\ resultado' = ResultadoDe(tool_name, s)
          /\ IF s.ok
             THEN /\ respuestas' = Append(respuestas,
                        EntradaRespuesta(tool_name,
                            TextoDeResultado(ejecutar_herramienta(tool_name, s))))
                  /\ k' = k + 1
                  /\ cst' = "llamando"
                  /\ UNCHANGED <<retorno, procesos>>
             ELSE /\ cst' = "excepcion"
                  /\ retorno' = Excepcion(s.error)
                  /\ procesos' = procesos - 1
                  /\ UNCHANGED <<respuestas, k>>
    /\ UNCHANGED <<task, especialistas, herramientas_disponibles, a_consultar,
                   errores, mundo, consultas, solicitudes, colgado, clasif, entorno, tablas, orqVars>>

\* Llamar with an except clause that records nothing (line 141 missing)
Llamar_sinRegistrar ==
    /\ cst = "esperando"
    /\ ~colgado
    /\ LET tool_name == a_consultar[k] IN
       \E s \in mundo[tool_name] :
          /\ llamadas' = Append(llamadas, [name |-> tool_name, task |-> task, ok |-> s.ok])
          /\ invocaciones' = Invocar(invocaciones, tool_name, task)
          /\ resultado' = ResultadoDe(tool_name, s)
          /\ IF s.ok
             THEN respuestas' = Append(respuestas,
                        EntradaRespuesta(tool_name,
                            TextoDeResultado(ejecutar_herramienta(tool_name, s))))
             ELSE UNCHANGED respuestas
    /\ k' = k + 1
    /\ cst' = "llamando"
    /\ UNCHANGED <<task, especialistas, herramientas_disponibles, a_consultar,
                   errores, retorno, mundo, procesos, consultas, solicitudes, colgado,
                   clasif, entorno, tablas, orqVars>>

\* lines 114-141: the answer of the pending call arrives and the iteration
\* of the loop ends
Llamar ==
    /\ cst = "esperando"
    /\ ~colgado
    /\ LET tool_name == a_consultar[k] IN
       \E s \in mundo[tool_name] :
          /\ llamadas' = Append(llamadas, [name |-> tool_name, task |-> task, ok |-> s.ok])
          /\ invocaciones' = Invocar(invocaciones, tool_name, task)
          /\ resultado' = ResultadoDe(tool_name, s)
          /\ IF s.ok
             THEN /\ respuestas' = Append(respuestas,
                        EntradaRespuesta(tool_name,
                            TextoDeResultado(ejecutar_herramienta(tool_name, s))))
                  /\ UNCHANGED errores
             ELSE /\ errores' = Append(errores, EntradaError(tool_name, s.error))
                  /\ UNCHANGED respuestas
    /\ k' = k + 1
    /\ cst' = "llamando"
    /\ UNCHANGED <<task, especialistas, herramientas_disponibles, a_consultar,
                   retorno, mundo, procesos, consultas, solicitudes, colgado, clasif, entorno, tablas,
                   orqVars>>

\* lines 100-101 (exit of the two context managers) and 143-149
Cerrar ==
    /\ cst = "llamando"
    /\ k > Len(a_consultar)
    /\ procesos' = procesos - 1
    /\ \/ /\ cst' = "devuelta"
          /\ retorno' = Reporte(Payload(herramientas_disponibles, respuestas, errores))
       \/ /\ cst' = "excepcion"
          /\ retorno' = Excepcion("CloseError")
    /\ UNCHANGED <<task, especialistas, herramientas_disponibles, a_consultar, k,
                   respuestas, errores, mundo, llamadas, consultas, hostVars, clasif, entorno,
                   orqVars>>

\* every non-empty set of outcomes for every capability
MundoLibre == [n \in Nombres |-> Salidas]

\* the `especialistas` arguments of a direct consultation
Deseadas ==
    {Ninguno} \cup {Lista(l) : l \in SeqsUpTo(Nombres \cup {"Consejera"}, MaxWanted)}

InitConsulta ==
    /\ pc = "directo"
    /\ config = [base_url |-> TRUE, api_key |-> TRUE, deployment |-> TRUE]
    /\ messages = <<>>
    /\ msg1 = [content |-> NoDato, tool_calls |-> <<>>]
    /\ ci = 0
    /\ peticiones = <<>>
    /\ msg2 = [content |-> NoDato, tool_calls |-> FALSE]
    /\ salida = NoDato
    /\ cst = "inactiva"
    /\ task = NoDato
    /\ especialistas = Ninguno
    /\ herramientas_disponibles = <<>>
    /\ a_consultar = <<>>
    /\ k = 0
    /\ respuestas = <<>>
    /\ errores = <<>>
    /\ retorno = SinRetorno
    /\ mundo = MundoLibre
    /\ procesos = 0
    /\ llamadas = <<>>
    /\ consultas = 0
    /\ solicitudes = <<>>
    /\ invocaciones = <<>>
    /\ resultado = SinResultado
    /\ colgado = FALSE
    /\ tablas = TablasAlArrancar
    /\ clasif = SinClasificar
    /\ entorno = SinEntorno

\* a caller other than the orchestrator invokes the tool function
ConsultaDirecta ==
    /\ pc = "directo"
    /\ cst = "inactiva"
    /\ \E esp \in Deseadas : IniciarConsulta("tarea", esp)
    /\ UNCHANGED <<mundo, procesos, llamadas, hostVars, clasif, entorno, orqVars>>

NextConsulta ==
    \/ ConsultaDirecta
    \/ Conectar
    \/ Listar
    \/ Solicitar
    \/ Colgar
    \/ Llamar
    \/ Cerrar

SpecConsulta == InitConsulta /\ [][NextConsulta]_vars

(***************************************************************************)
(* Capability Host driven directly: any client sends it call_tool requests.*)
(***************************************************************************)
\* names no agent of the registry has; the second one is a key of the
\* registry dictionary, which is not the name of its agent
NombresAjenos == {"Consejera", "Oficial de Ciencias", ""}

\* the task of a request: a text, or no "task" key in the arguments
Tareas == {"tarea", NoDato}

InitHost ==
    /\ pc = "host"
    /\ config = [base_url |-> TRUE, api_key |-> TRUE, deployment |-> TRUE]
    /\ messages = <<>>
    /\ msg1 = [content |-> NoDato, tool_calls |-> <<>>]
    /\ ci = 0
    /\ peticiones = <<>>
    /\ msg2 = [content |-> NoDato, tool_calls |-> FALSE]
    /\ salida = NoDato
    /\ cst = "inactiva"
    /\ task = NoDato
    /\ especialistas = Ninguno
    /\ herramientas_disponibles = <<>>
    /\ a_consultar = <<>>
    /\ k = 0
    /\ respuestas = <<>>
    /\ errores = <<>>
    /\ retorno = SinRetorno
    /\ mundo = MundoLibre
    /\ procesos = 1
    /\ llamadas = <<>>
    /\ consultas = 0
    /\ solicitudes = <<>>
    /\ invocaciones = <<>>
    /\ resultado = SinResultado
    /\ colgado = FALSE
    /\ tablas = TablasAlArrancar
    /\ clasif = SinClasificar
    /\ entorno = SinEntorno

\* EjecutarHerramienta taking the agent out of the lookup once it has run
EjecutarHerramienta_consume ==
    /\ pc = "host"
    /\ Len(solicitudes) < MaxPeticiones
    /\ \E tool_name \in Nombres \cup NombresAjenos, t \in Tareas :
          /\ solicitudes' = Append(solicitudes, [name |-> tool_name, task |-> t])
          /\ invocaciones' = Invocar(invocaciones, tool_name, t)
          /\ tablas' = [tablas EXCEPT !.agentes_por_nombre =
                           [n \in DOMAIN @ \ {tool_name} |-> @[n]]]
          /\ \E s \in (IF tool_name \in DOMAIN tablas.agentes_por_nombre
                      THEN mundo[tool_name] ELSE Fallo) :
                /\ resultado' = ResultadoDe(tool_name, s)
                /\ llamadas' = Append(llamadas,
                      [name |-> tool_name, task |-> t,
                       ok |-> ResultadoDe(tool_name, s).tipo = "contenido"])
    /\ UNCHANGED <<orqVars, cliVars, mundo, procesos, consultas, colgado, clasif,
                   entorno>>

\* server lines 119-127: one call_tool request, handled to its answer
EjecutarHerramienta ==
    /\ pc = "host"
    /\ Len(solicitudes) < MaxPeticiones
    /\ \E tool_name \in Nombres \cup NombresAjenos, t \in Tareas :
          /\ solicitudes' = Append(solicitudes, [name |-> tool_name, task |-> t])
          /\ invocaciones' = Invocar(invocaciones, tool_name, t)
          /\ \E s \in (IF tool_name \in DOMAIN tablas.agentes_por_nombre
                      THEN mundo[tool_name] ELSE Fallo) :
                /\ resultado' = ResultadoDe(tool_name, s)
                /\ llamadas' = Append(llamadas,
                      [name |-> tool_name, task |-> t,
                       ok |-> ResultadoDe(tool_name, s).tipo = "contenido"])
    /\ UNCHANGED <<orqVars, cliVars, mundo, procesos, consultas, colgado, tablas, clasif,
                   entorno>>

\* server lines 97-117: one list_tools request; the answer, which its
\* client keeps, is the name of every agent of the registry, in its order
ListarHerramientas ==
    /\ pc = "host"
    /\ herramientas_disponibles' =
          [j \in 1..Len(tablas.especialistas_puente) |->
              tablas.especialistas_puente[j].name]
    /\ UNCHANGED <<orqVars, cst, task, especialistas, a_consultar, k, respuestas,
                   errores, retorno, mundo, procesos, llamadas, consultas, hostVars,
                   clasif, entorno>>

NextHost == EjecutarHerramienta \/ ListarHerramientas

SpecHost == InitHost /\ [][NextHost]_vars

(***************************************************************************)
(* Response Classifier applied on its own to a text.                       *)
(***************************************************************************)
\* the pieces the texts are made of: the risk words in several spellings,
\* two structured prefixes, a line break, a blank and other characters
Trozos ==
    { <<"a", "l", "t", "o">>,
      <<"B", "A", "J", "O">>,
      <<"C", "r", "í", "t", "i", "c", "o">>,
      <<"c", "r", "i", "t", "i", "c", "a">>,
      <<"m", "e", "d", "i", "o">>,
      <<"R", "i", "e", "s", "g", "o", ":">>,
      <<"a", "c", "c", "i", "ó", "n", " ">>,
      <<"\n">>,
      <<" ">>,
      <<"x">>,
      <<"ß">> }

Textos == {Concat(ps) : ps \in SeqsUpTo(Trozos, MaxTrozos)}

\* the values of max_lineas; 4 is the one line 135 passes
Maximos == {0, 1, 4}

Entrada(t) == [SinClasificar EXCEPT !.fase = "entrada", !.texto = t]

InitClasificador ==
    /\ pc = "clasificador"
    /\ config = [base_url |-> TRUE, api_key |-> TRUE, deployment |-> TRUE]
    /\ messages = <<>>
    /\ msg1 = [content |-> NoDato, tool_calls |-> <<>>]
    /\ ci = 0
    /\ peticiones = <<>>
    /\ msg2 = [content |-> NoDato, tool_calls |-> FALSE]
    /\ salida = NoDato
    /\ cst = "inactiva"
    /\ task = NoDato
    /\ especialistas = Ninguno
    /\ herramientas_disponibles = <<>>
    /\ a_consultar = <<>>
    /\ k = 0
    /\ respuestas = <<>>
    /\ errores = <<>>
    /\ retorno = SinRetorno
    /\ mundo = MundoLibre
    /\ procesos = 0
    /\ llamadas = <<>>
    /\ consultas = 0
    /\ solicitudes = <<>>
    /\ invocaciones = <<>>
    /\ resultado = SinResultado
    /\ colgado = FALSE
    /\ tablas = TablasAlArrancar
    /\ clasif \in {Entrada(t) : t \in Textos}
    /\ entorno = SinEntorno

\* lines 41-51: _nivel_riesgo of the text
NivelRiesgo ==
    /\ pc = "clasificador"
    /\ clasif.fase = "entrada"
    /\ clasif' = [clasif EXCEPT !.fase = "nivel", !.nivel = nivel_riesgo(clasif.texto)]
    /\ UNCHANGED <<orqVars, cliVars, mundo, procesos, llamadas, consultas, hostVars,
                   entorno>>

\* lines 37-38: _normalizar of the text
Normalizar ==
    /\ pc = "clasificador"
    /\ clasif.fase = "nivel"
    /\ clasif' = [clasif EXCEPT !.fase = "normalizado",
                                !.normalizado = normalizar(clasif.texto)]
    /\ UNCHANGED <<orqVars, cliVars, mundo, procesos, llamadas, consultas, hostVars,
                   entorno>>

\* lines 37-51: _normalizar and _nivel_riesgo of the normalized text
Renormalizar ==
    /\ pc = "clasificador"
    /\ clasif.fase = "normalizado"
    /\ clasif' = [clasif EXCEPT !.fase = "renormalizado",
                                !.renormalizado = normalizar(clasif.normalizado),
                                !.nivel_normalizado = nivel_riesgo(clasif.normalizado)]
    /\ UNCHANGED <<orqVars, cliVars, mundo, procesos, llamadas, consultas, hostVars,
                   entorno>>

\* lines 54-73: _extraer_claves of the text
ExtraerClaves ==
    /\ pc = "clasificador"
    /\ clasif.fase = "entrada"
    /\ \E m \in Maximos :
          clasif' = [clasif EXCEPT !.fase = "claves", !.max_lineas = m,
                                  !.claves = extraer_claves(clasif.texto, m)]
    /\ UNCHANGED <<orqVars, cliVars, mundo, procesos, llamadas, consultas, hostVars,
                   entorno>>

NextClasificador == NivelRiesgo \/ Normalizar \/ Renormalizar \/ ExtraerClaves

SpecClasificador == InitClasificador /\ [][NextClasificador]_vars

(***************************************************************************)
(* Configuration file loader (_cargar_env) applied on its own.             *)
(***************************************************************************)
\* the lines the files are made of: assignments of two keys, plain, padded
\* and quoted, a comment, a line without "=", one without a key, a blank
\* one and an assignment of the empty value
LineasEnv ==
    { <<"A", "=", "1">>,
      <<" ", "A", " ", "=", " ", "2", " ">>,
      <<"B", "=", "'", "3", "'">>,
      <<"B", "=", "4">>,
      <<"#", "A", "=", "9">>,
      <<"A">>,
      <<"=", "5">>,
      <<" ">>,
      <<"A", "=">> }

ArchivosEnv == {JoinLines(ls) : ls \in SeqsUpTo(LineasEnv, MaxLineasEnv)}

\* os.environ when the loader is called: a variable can be set to the empty
\* text
EnvironsIniciales ==
    { EnvironVacio,
      [key \in {<<"A">>} |-> <<"0">>],
      [key \in {<<"A">>} |-> <<>>],
      [key \in {<<"A">>, <<"B">>} |-> <<"0">>] }

\* line 165: the line is blank, a comment, or has no "="
SeIgnora(line) ==
    \/ line = <<>>
    \/ Head(line) = "#"
    \/ \A j \in 1..Len(line) : line[j] # "="

\* line 168: the position str.split("=", 1) splits at
PrimerIgual(line) ==
    CHOOSE j \in 1..Len(line) :
       line[j] = "=" /\ \A q \in 1..(j - 1) : line[q] # "="

\* lines 168-169
ClaveDe(line) == strip(SubSeq(line, 1, PrimerIgual(line) - 1))

RECURSIVE strip_bom(_)
\* str.strip("\ufeff"); the byte-order mark is the item "BOM"
strip_bom(s) ==
    IF s # <<>> /\ Head(s) = "BOM" THEN strip_bom(Tail(s))
    ELSE IF s # <<>> /\ s[Len(s)] = "BOM" THEN strip_bom(SubSeq(s, 1, Len(s) - 1))
    ELSE s

\* lines 168-176
ValorDe(line) ==
    LET value == strip_bom(strip(SubSeq(line, PrimerIgual(line) + 1, Len(line))))
    IN  IF value # <<>> /\ \/ (Head(value) = "\"" /\ value[Len(value)] = "\"")
                           \/ (Head(value) = "'" /\ value[Len(value)] = "'")
        THEN SubSeq(value, 2, Len(value) - 1)
        ELSE value

\* line 178: os.environ[key] = value
Asignar(environ, key, value) ==
    [q \in DOMAIN environ \cup {key} |-> IF q = key THEN value ELSE environ[q]]

InitEntorno ==
    /\ pc = "entorno"
    /\ config = [base_url |-> TRUE, api_key |-> TRUE, deployment |-> TRUE]
    /\ messages = <<>>
    /\ msg1 = [content |-> NoDato, tool_calls |-> <<>>]
    /\ ci = 0
    /\ peticiones = <<>>
    /\ msg2 = [content |-> NoDato, tool_calls |-> FALSE]
    /\ salida = NoDato
    /\ cst = "inactiva"
    /\ task = NoDato
    /\ especialistas = Ninguno
    /\ herramientas_disponibles = <<>>
    /\ a_consultar = <<>>
    /\ k = 0
    /\ respuestas = <<>>
    /\ errores = <<>>
    /\ retorno = SinRetorno
    /\ mundo = MundoLibre
    /\ procesos = 0
    /\ llamadas = <<>>
    /\ consultas = 0
    /\ solicitudes = <<>>
    /\ invocaciones = <<>>
    /\ resultado = SinResultado
    /\ colgado = FALSE
    /\ tablas = TablasAlArrancar
    /\ clasif = SinClasificar
    /\ \E e \in EnvironsIniciales :
          \/ entorno = [SinEntorno EXCEPT !.fase = "inicio", !.inicial = e, !.environ = e]
          \/ \E a \in ArchivosEnv :
                entorno = [SinEntorno EXCEPT !.fase = "inicio", !.existe = TRUE,
                                             !.archivo = a, !.inicial = e, !.environ = e]

\* lines 159-163: without a file nothing is loaded; else its lines are read
AbrirEnv ==
    /\ pc = "entorno"
    /\ entorno.fase = "inicio"
    /\ LET ls == IF entorno.existe THEN splitlines(entorno.archivo) ELSE <<>> IN
       entorno' = [entorno EXCEPT !.lineas = ls,
                                  !.fase = IF ls = <<>> THEN "hecho" ELSE "cargando"]
    /\ UNCHANGED <<orqVars, cliVars, mundo, procesos, llamadas, consultas, hostVars,
                   clasif>>

\* CargarLinea without the test `key in os.environ` of line 172
CargarLinea_sobrescribe ==
    /\ pc = "entorno"
    /\ entorno.fase = "cargando"
    /\ LET line == strip(Head(entorno.lineas))
           resto == Tail(entorno.lineas)
           fase == IF resto = <<>> THEN "hecho" ELSE "cargando"
       IN  IF SeIgnora(line) \/ ClaveDe(line) = <<>>
           THEN entorno' = [entorno EXCEPT !.lineas = resto, !.fase = fase]
           ELSE entorno' = [entorno EXCEPT !.lineas = resto, !.fase = fase,
                               !.environ = Asignar(@, ClaveDe(line), ValorDe(line))]
    /\ UNCHANGED <<orqVars, cliVars, mundo, procesos, llamadas, consultas, hostVars,
                   clasif>>

\* lines 163-178: one line of the file
CargarLinea ==
    /\ pc = "entorno"
    /\ entorno.fase = "cargando"
    /\ LET line == strip(Head(entorno.lineas))
           resto == Tail(entorno.lineas)
           fase == IF resto = <<>> THEN "hecho" ELSE "cargando"
       IN  IF \/ SeIgnora(line)
              \/ ClaveDe(line) = <<>>
              \/ ClaveDe(line) \in DOMAIN entorno.environ
           THEN entorno' = [entorno EXCEPT !.lineas = resto, !.fase = fase]
           ELSE entorno' = [entorno EXCEPT !.lineas = resto, !.fase = fase,
                               !.environ = Asignar(@, ClaveDe(line), ValorDe(line))]
    /\ UNCHANGED <<orqVars, cliVars, mundo, procesos, llamadas, consultas, hostVars,
                   clasif>>

NextEntorno == AbrirEnv \/ CargarLinea

SpecEntorno == InitEntorno /\ [][NextEntorno]_vars

(***************************************************************************)
(* Decision Orchestrator (_run_capitan).                                   *)
(***************************************************************************)
HerramientaConsulta == "consultar_puente_enterprise_mcp"

\* line 298: the tools declared to the chat collaborator, by function name
tools == <<HerramientaConsulta>>

escenario == "escenario"

\* Message contents.  A report is kept as the payload json.dumps writes out
\* (dumps is injective on payloads); an unsupported-tool error keeps the name.
CTexto(t) == [tipo |-> "texto", texto |-> t, payload |-> Payload(<<>>, <<>>, <<>>)]
CNulo == [tipo |-> "nulo", texto |-> "", payload |-> Payload(<<>>, <<>>, <<>>)]
CReporte(p) == [tipo |-> "reporte", texto |-> "", payload |-> p]
CErrorTool(name) == [tipo |-> "error_tool", texto |-> name, payload |-> Payload(<<>>, <<>>, <<>>)]

Mensaje(role, content, id, calls) ==
    [role |-> role, content |-> content, tool_call_id |-> id, tool_calls |-> calls]

\* lines 300-308
MensajesIniciales ==
    << Mensaje("system", CTexto("system_prompt"), NoDato, <<>>),
       Mensaje("user", CTexto("Escenario del Capitán"), NoDato, <<>>) >>

\* Arguments of a tool call as the model wrote them: a JSON object (with an
\* optional task and an optional especialistas, a list or a single value),
\* JSON that is no object, or text that is no JSON.
EspAusente == [tipo |-> "ausente", valor |-> <<>>]
ArgObjeto(t, e) == [json |-> "objeto", task |-> t, especialistas |-> e]
ArgNoObjeto == [json |-> "no_objeto", task |-> NoDato, especialistas |-> EspAusente]
ArgInvalido == [json |-> "invalido", task |-> NoDato, especialistas |-> EspAusente]

ToolCall(id, name, arguments) == [id |-> id, name |-> name, arguments |-> arguments]

\* the tool calls a first-turn response is built from
ToolCallChoices ==
    { ToolCall("call_1", HerramientaConsulta, ArgObjeto("tarea del modelo", EspAusente)),
      ToolCall(NoDato, HerramientaConsulta,
               ArgObjeto(NoDato, [tipo |-> "lista",
                                  valor |-> <<listar_herramientas[2], listar_herramientas[1]>>])),
      ToolCall("call_3", "otra_herramienta", ArgNoObjeto),
      ToolCall("call_4", HerramientaConsulta, ArgInvalido),
      ToolCall("call_5", HerramientaConsulta, ArgNoObjeto),
      ToolCall("call_6", HerramientaConsulta,
               ArgObjeto("", [tipo |-> "escalar", valor |-> <<listar_herramientas[4]>>])) }

\* first-turn messages of the chat collaborator
Respuestas1 ==
    {[content |-> c, tool_calls |-> tc] :
        c \in {NoDato, "Consultare al puente"}, tc \in SeqsUpTo(ToolCallChoices, MaxCalls)}

DENY == "DECISIÓN: NO AUTORIZAR"
MITIGATE == "DECISIÓN: AUTORIZAR CON MITIGACIONES"
APPROVE == "DECISIÓN: AUTORIZAR"
\* a text that marks the decision as taken without evidence
SIN_EVIDENCIA == "DECISIÓN: NO AUTORIZAR (consulta fallida)"

\* second-turn messages: a text, nothing, or (only when the request declares
\* tools) a further tool-call request, which carries no content
Respuestas2(peticion) ==
    {[content |-> c, tool_calls |-> FALSE] : c \in {DENY, MITIGATE, APPROVE, SIN_EVIDENCIA, "", NoDato}}
    \cup (IF peticion.tools # <<>>
          THEN {[content |-> NoDato, tool_calls |-> TRUE]} ELSE {})

\* lines 311-320 and 375-383: the two chat-completion requests
Peticion1(msgs) == [messages |-> msgs, tools |-> tools, tool_choice |-> "auto"]
Peticion2(msgs) == [messages |-> msgs, tools |-> tools, tool_choice |-> NoDato]

\* lines 343-347: json.loads of the arguments, with its fallback
ArgsDe(call) ==
    IF call.arguments.json = "invalido"
    THEN ArgObjeto(escenario, EspAusente)
    ELSE call.arguments

\* lines 352-359
especialistas_list(args) ==
    IF args.especialistas.tipo = "ausente" THEN Ninguno
    ELSE Lista(args.especialistas.valor)

\* line 362: str(args.get("task") or escenario)
TaskDe(args) == IF args.task \in {NoDato, ""} THEN escenario ELSE args.task

\* IdDe without the `or "unknown"` of line 369
IdDe_sinPorDefecto(call) == call.id

\* line 369
IdDe(call) == IF call.id \in {NoDato, ""} THEN "unknown" ELSE call.id

\* per capability, what its collaborator can answer in a run
Dice(r) == {s \in Salidas : s.ok /\ s.text = r}
Mundos ==
    { [n \in Nombres |-> Dice(R_BAJO)],
      [n \in Nombres |-> Fallo],
      [n \in Nombres |->
          CASE n = listar_herramientas[1] -> Dice(R_ALTO)
            [] n = listar_herramientas[2] -> Dice(R_BAJO)
            [] n = listar_herramientas[3] -> Dice(R_MEDIO)
            [] OTHER -> Dice(R_BAJO)],
      [n \in Nombres |->
          CASE n = listar_herramientas[1] -> Dice(R_MEDIO) \cup Fallo
            [] n = listar_herramientas[2] -> Fallo
            [] n = listar_herramientas[3] -> Dice(R_BAJO)
            [] OTHER -> Dice(R_BAJO) \cup Dice(R_ALTO)] }

Init ==
    /\ pc = "inicio"
    /\ config \in [base_url : BOOLEAN, api_key : BOOLEAN, deployment : BOOLEAN]
    /\ messages = <<>>
    /\ msg1 = [content |-> NoDato, tool_calls |-> <<>>]
    /\ ci = 0
    /\ peticiones = <<>>
    /\ msg2 = [content |-> NoDato, tool_calls |-> FALSE]
    /\ salida = NoDato
    /\ cst = "inactiva"
    /\ task = NoDato
    /\ especialistas = Ninguno
    /\ herramientas_disponibles = <<>>
    /\ a_consultar = <<>>
    /\ k = 0
    /\ respuestas = <<>>
    /\ errores = <<>>
    /\ retorno = SinRetorno
    /\ mundo \in Mundos
    /\ procesos = 0
    /\ llamadas = <<>>
    /\ consultas = 0
    /\ solicitudes = <<>>
    /\ invocaciones = <<>>
    /\ resultado = SinResultado
    /\ colgado = FALSE
    /\ tablas = TablasAlArrancar
    /\ clasif = SinClasificar
    /\ entorno = SinEntorno

\* Arrancar without the check of lines 271-275: the first request is sent
\* whatever the configuration holds
Arrancar_sinComprobar ==
    /\ pc = "inicio"
    /\ messages' = MensajesIniciales
    /\ peticiones' = <<Peticion1(MensajesIniciales)>>
    /\ pc' = "turno1"
    /\ UNCHANGED <<config, msg1, ci, msg2, salida, cliVars, envVars>>

\* lines 264-320: configuration, initial messages, first request
Arrancar ==
    /\ pc = "inicio"
    /\ IF config.base_url /\ config.api_key /\ config.deployment
       THEN /\ messages' = MensajesIniciales
            /\ peticiones' = <<Peticion1(MensajesIniciales)>>
            /\ pc' = "turno1"
       ELSE /\ pc' = "error_config"
            /\ UNCHANGED <<messages, peticiones>>
    /\ UNCHANGED <<config, msg1, ci, msg2, salida, cliVars, envVars>>

\* line 311: the first request fails (urlopen raises)
FalloHTTP1 ==
    /\ pc = "turno1"
    /\ pc' = "error_http"
    /\ UNCHANGED <<config, messages, msg1, ci, peticiones, msg2, salida, cliVars, envVars>>

\* lines 322-329: no tool call in the first response, the consultation is forced
Respuesta1SinLlamadas ==
    /\ pc = "turno1"
    /\ \E r \in Respuestas1 :
          /\ r.tool_calls = <<>>
          /\ msg1' = r
    /\ IniciarConsulta(escenario, Ninguno)
    /\ pc' = "forzada"
    /\ UNCHANGED <<config, messages, ci, peticiones, msg2, salida, mundo, procesos, llamadas,
                   hostVars, clasif, entorno>>

\* lines 322-338: the first response requests tools
Respuesta1ConLlamadas ==
    /\ pc = "turno1"
    /\ \E r \in Respuestas1 :
          /\ r.tool_calls # <<>>
          /\ msg1' = r
          /\ messages' = Append(messages,
                Mensaje("assistant",
                        IF r.content = NoDato THEN CNulo ELSE CTexto(r.content),
                        NoDato, r.tool_calls))
    /\ ci' = 1
    /\ pc' = "procesar"
    /\ UNCHANGED <<config, peticiones, msg2, salida, cliVars, envVars>>

\* ProcesarOtra without the check of the tool's name at line 349: a call of
\* any tool runs the consultation
ProcesarOtra_sinComprobarNombre ==
    /\ pc = "procesar"
    /\ ci <= Len(msg1.tool_calls)
    /\ msg1.tool_calls[ci].name # HerramientaConsulta
    /\ IniciarConsulta(escenario, Ninguno)
    /\ pc' = "consultando"
    /\ UNCHANGED <<config, messages, msg1, ci, peticiones, msg2, salida, mundo, procesos, llamadas,
                   hostVars, clasif, entorno>>

\* ProcesarOtra raising at line 350 instead of answering with an error
ProcesarOtra_lanza ==
    /\ pc = "procesar"
    /\ ci <= Len(msg1.tool_calls)
    /\ msg1.tool_calls[ci].name # HerramientaConsulta
    /\ pc' = "error_herramienta"
    /\ UNCHANGED <<config, messages, msg1, ci, peticiones, msg2, salida, cliVars, envVars>>

\* lines 340-350, 366-372: a call of a tool that is not the consultation
ProcesarOtra ==
    /\ pc = "procesar"
    /\ ci <= Len(msg1.tool_calls)
    /\ LET call == msg1.tool_calls[ci] IN
          /\ call.name # HerramientaConsulta
          /\ messages' = Append(messages,
                Mensaje("tool", CErrorTool(call.name), IdDe(call), <<>>))
    /\ ci' = ci + 1
    /\ UNCHANGED <<pc, config, msg1, peticiones, msg2, salida, cliVars, envVars>>

\* lines 340-364: a call of the consultation tool; the consultation starts,
\* or args.get raises because the arguments are JSON but no object
ProcesarConsulta ==
    /\ pc = "procesar"
    /\ ci <= Len(msg1.tool_calls)
    /\ LET call == msg1.tool_calls[ci]
           args == ArgsDe(call)
       IN  /\ call.name = HerramientaConsulta
           /\ IF args.json = "objeto"
              THEN /\ IniciarConsulta(TaskDe(args), especialistas_list(args))
                   /\ pc' = "consultando"
              ELSE /\ pc' = "error_args"
                   /\ UNCHANGED <<cliVars, consultas>>
    /\ UNCHANGED <<config, messages, msg1, ci, peticiones, msg2, salida, mundo, procesos, llamadas,
                   hostVars, clasif, entorno>>

\* lines 361-372: the consultation returned, its report becomes a tool message
ConsultaDevuelta ==
    /\ pc = "consultando"
    /\ cst = "devuelta"
    /\ messages' = Append(messages,
          Mensaje("tool", CReporte(retorno.payload), IdDe(msg1.tool_calls[ci]), <<>>))
    /\ ci' = ci + 1
    /\ pc' = "procesar"
    /\ cst' = "inactiva"
    /\ UNCHANGED <<config, msg1, peticiones, msg2, salida, task, especialistas,
                   herramientas_disponibles, a_consultar, k, respuestas, errores,
                   retorno, envVars>>

\* lines 327-329: the forced consultation returned
ForzadaDevuelta ==
    /\ pc = "forzada"
    /\ cst = "devuelta"
    /\ messages' = messages \o
          << Mensaje("assistant",
                     CTexto(IF msg1.content = NoDato THEN "" ELSE msg1.content),
                     NoDato, <<>>),
             Mensaje("tool", CReporte(retorno.payload), "forced", <<>>) >>
    /\ ci' = 1
    /\ pc' = "procesar"
    /\ cst' = "inactiva"
    /\ UNCHANGED <<config, msg1, peticiones, msg2, salida, task, especialistas,
                   herramientas_disponibles, a_consultar, k, respuestas, errores,
                   retorno, envVars>>

\* lines 327, 361: the consultation raised, and so does the run
ConsultaFallida ==
    /\ pc \in {"consultando", "forzada"}
    /\ cst = "excepcion"
    /\ pc' = "error_consulta"
    /\ cst' = "inactiva"
    /\ UNCHANGED <<config, messages, msg1, ci, peticiones, msg2, salida, task, especialistas,
                   herramientas_disponibles, a_consultar, k, respuestas, errores,
                   retorno, envVars>>

\* lines 374-383: the second request
EnviarTurno2 ==
    /\ pc = "procesar"
    /\ ci > Len(msg1.tool_calls)
    /\ peticiones' = Append(peticiones, Peticion2(messages))
    /\ pc' = "turno2"
    /\ UNCHANGED <<config, messages, msg1, ci, msg2, salida, cliVars, envVars>>

\* line 375: the second request fails
FalloHTTP2 ==
    /\ pc = "turno2"
    /\ pc' = "error_http"
    /\ UNCHANGED <<config, messages, msg1, ci, peticiones, msg2, salida, cliVars, envVars>>

\* Respuesta2 without the `or ""` of line 386: a response without content
\* is returned as the text of None
Respuesta2_sinOr ==
    /\ pc = "turno2"
    /\ \E r \in Respuestas2(peticiones[2]) :
          /\ msg2' = r
          /\ salida' = r.content
    /\ pc' = "fin"
    /\ UNCHANGED <<config, messages, msg1, ci, peticiones, cliVars, envVars>>

\* Respuesta2 as a loop: a second response that requests tools again is
\* answered with one more request
Respuesta2_otraVuelta ==
    /\ pc = "turno2"
    /\ \E r \in Respuestas2(peticiones[Len(peticiones)]) :
          /\ msg2' = r
          /\ IF r.tool_calls /\ Len(peticiones) < 3
             THEN /\ peticiones' = Append(peticiones, Peticion2(messages))
                  /\ UNCHANGED <<pc, salida>>
             ELSE /\ salida' = (IF r.content = NoDato THEN "" ELSE r.content)
                  /\ pc' = "fin"
                  /\ UNCHANGED peticiones
    /\ UNCHANGED <<config, messages, msg1, ci, cliVars, envVars>>

\* lines 385-386: the second response; its content is what the run returns
Respuesta2 ==
    /\ pc = "turno2"
    /\ \E r \in Respuestas2(peticiones[2]) :
          /\ msg2' = r
          /\ salida' = (IF r.content = NoDato THEN "" ELSE r.content)
    /\ pc' = "fin"
    /\ UNCHANGED <<config, messages, msg1, ci, peticiones, cliVars, envVars>>

Next ==
    \/ Arrancar
    \/ FalloHTTP1
    \/ Respuesta1SinLlamadas
    \/ Respuesta1ConLlamadas
    \/ ProcesarOtra
    \/ ProcesarConsulta
    \/ ConsultaDevuelta
    \/ ForzadaDevuelta
    \/ ConsultaFallida
    \/ EnviarTurno2
    \/ FalloHTTP2
    \/ Respuesta2
    \/ Conectar
    \/ Listar
    \/ Solicitar
    \/ Colgar
    \/ Llamar
    \/ Cerrar

Spec == Init /\ [][Next]_vars

(***************************************************************************)
(* Claims about the Decision Orchestrator.                                 *)
(***************************************************************************)
\* the run has sent, or is past, its second chat-completion request
EnSegundoTurno == pc \in {"turno2", "fin"} \/ (pc = "error_http" /\ Len(peticiones) = 2)

\* the first-turn tool calls that name the consultation tool
LlamadasDeConsulta ==
    {j \in 1..Len(msg1.tool_calls) : msg1.tool_calls[j].name = HerramientaConsulta}

ReportesEn(msgs) ==
    {j \in 1..Len(msgs) : msgs[j].role = "tool" /\ msgs[j].content.tipo = "reporte"}

\* C2: whenever the second request is sent, its messages hold at least one
\* tool-response message whose content is a consultation report.
C2_EvidenciaEnTurno2 ==
    Len(peticiones) >= 2 => ReportesEn(peticiones[2].messages) # {}

\* C3: the second request carries the messages so far and declares no
\* tools, and the second response is no further tool-call request.
C3_SinHerramientas ==
    /\ Len(peticiones) >= 2 =>
          /\ peticiones[2].tools = <<>>
          /\ peticiones[2].messages = messages
    /\ pc = "fin" => ~msg2.tool_calls

(***************************************************************************)
(* Claims about the Capability Client, checked under SpecConsulta.         *)
(***************************************************************************)
\* the loop of the consultation has run to its end
BucleTerminado == cst \in {"llamando", "devuelta"} /\ k > Len(a_consultar)

\* the capabilities named by the report, results first
NombresDelReporte ==
    [j \in 1..Len(respuestas) |-> respuestas[j].especialista]
    \o [j \in 1..Len(errores) |-> errores[j].especialista]

Veces(n, nombres) == Cardinality({j \in 1..Len(nombres) : nombres[j] = n})

\* C4: the results and the failures of a report partition the attempted
\* capabilities: each one appears exactly once in the two sequences together.
C4_Particion ==
    cst = "devuelta" =>
        \A n \in Range(a_consultar) : Veces(n, NombresDelReporte) = 1

\* the position of a discovered capability in the discovery order
Posicion(n) == CHOOSE j \in 1..Len(herramientas_disponibles) : herramientas_disponibles[j] = n

EnOrdenDeDescubrimiento(nombres) ==
    \A i, j \in 1..Len(nombres) : i < j => Posicion(nombres[i]) <= Posicion(nombres[j])

\* C5: capabilities are invoked in discovery order and the results keep
\* that order, whatever the order of the `especialistas` list.
C5_OrdenDeDescubrimiento ==
    /\ EnOrdenDeDescubrimiento([j \in 1..Len(llamadas) |-> llamadas[j].name])
    /\ EnOrdenDeDescubrimiento([j \in 1..Len(respuestas) |-> respuestas[j].especialista])

\* what C6 says is invoked
ConjuntoEsperado ==
    LET descubiertas == Range(herramientas_disponibles)
        comunes == Range(especialistas.lista) \cap descubiertas
    IN  IF especialistas.dado /\ comunes # {} THEN comunes ELSE descubiertas

\* C6: the set of capabilities a consultation invokes is the discovered
\* names that are in `especialistas` when that intersection is not empty,
\* else every discovered name; a name that was not discovered is never
\* invoked.
C6_ConjuntoInvocado ==
    /\ \A j \in 1..Len(llamadas) : llamadas[j].name \in Range(herramientas_disponibles)
    /\ \A j \in 1..Len(solicitudes) :
          solicitudes[j].name \in Range(herramientas_disponibles)
    /\ BucleTerminado => {llamadas[j].name : j \in 1..Len(llamadas)} = ConjuntoEsperado

\* C6 witness: a consultation whose `especialistas` names only an
\* undiscovered capability has invoked the four discovered ones.
C6_Witness ==
    /\ cst = "devuelta"
    /\ especialistas = Lista(<<"Consejera">>)
    /\ {llamadas[j].name : j \in 1..Len(llamadas)} = Nombres

\* the calls of the Host's log that succeeded / failed, in order
LlamadasCon(ok) ==
    LET idx == SelectIdx(Len(llamadas), {q \in 1..Len(llamadas) : llamadas[q].ok = ok})
    IN  [j \in 1..Len(idx) |-> llamadas[idx[j]].name]

\* C7: a failing call never aborts the consultation: every capability of the
\* resolved list is attempted, results and failures add up to its length,
\* every failing call is recorded in the failures with its error message and
\* the results hold exactly the successful ones.
C7_FalloAislado ==
    /\ cst = "llamando" => Len(llamadas) = k - 1
    /\ BucleTerminado =>
          /\ [j \in 1..Len(llamadas) |-> llamadas[j].name] = a_consultar
          /\ Len(respuestas) + Len(errores) = Len(a_consultar)
          /\ [j \in 1..Len(respuestas) |-> respuestas[j].especialista] = LlamadasCon(TRUE)
          /\ [j \in 1..Len(errores) |-> errores[j].especialista] = LlamadasCon(FALSE)
          /\ \A j \in 1..Len(errores) : errores[j].error = "RemoteError"

\* C7 witness: a returned consultation of four capabilities in which a call
\* failed and a later one succeeded.
C7_Witness ==
    /\ cst = "devuelta"
    /\ Len(a_consultar) = 4
    /\ \E i, j \in 1..Len(llamadas) : i < j /\ ~llamadas[i].ok /\ llamadas[j].ok

NivelesEn(msgs) ==
    UNION {{msgs[j].content.payload.respuestas[i].riesgo_detectado :
                i \in 1..Len(msgs[j].content.payload.respuestas)} : j \in ReportesEn(msgs)}

\* the precedence rule of the system prompt (lines 282-285)
DecisionEsperada(niveles) ==
    IF niveles \cap {"CRÍTICO", "ALTO"} # {} THEN DENY
    ELSE IF "MEDIO" \in niveles THEN MITIGATE
    ELSE APPROVE

\* the content of the second-turn message, as a text
ContenidoDe(m) == IF m.content = NoDato THEN "" ELSE m.content

\* C9, as stated: the Decision the run returns follows the precedence rule
\* over the risk levels of the consultation results, for every second-turn
\* response.
C9_Precedencia == pc = "fin" => salida = DecisionEsperada(NivelesEn(messages))

\* C9, amended: the run returns the content of the second-turn response
\* verbatim (the empty text when it has none); the precedence rule is only
\* stated in the system prompt that heads the messages of both requests.
C9_SalidaVerbatim ==
    /\ pc = "fin" => salida = ContenidoDe(msg2)
    /\ \A j \in 1..Len(peticiones) : peticiones[j].messages[1] = MensajesIniciales[1]

\* C9 witness: a finished run whose report holds a result of level ALTO and
\* whose returned text is the collaborator's AUTORIZAR.
C9_Witness ==
    /\ pc = "fin"
    /\ "ALTO" \in NivelesEn(messages)
    /\ msg2.content = APPROVE
    /\ salida = APPROVE

\* the run consulted, and no consultation had a successful result
TodasFallaron ==
    /\ ReportesEn(messages) # {}
    /\ \A j \in ReportesEn(messages) : messages[j].content.payload.respuestas = <<>>

SinArgumentos(call) ==
    \/ call.arguments.json \in {"invalido", "no_objeto"}
    \/ call.arguments.task = NoDato

\* C11: a call of the consultation tool whose arguments cannot be parsed
\* into an object, or carry no task, never aborts the run: the consultation
\* runs with the scenario as its task, and the call gets its tool message
\* with the report.
C11_ArgumentosTolerados ==
    /\ pc # "error_args"
    /\ (pc = "consultando" /\ SinArgumentos(msg1.tool_calls[ci])) => task = escenario
    /\ (pc \in {"procesar", "consultando"} /\ msg1.tool_calls # <<>>) =>
          \A j \in 1..(ci - 1) :
             (/\ msg1.tool_calls[j].name = HerramientaConsulta
              /\ SinArgumentos(msg1.tool_calls[j])) =>
                /\ Len(messages) >= 3 + j
                /\ messages[3 + j].role = "tool"
                /\ messages[3 + j].tool_call_id = IdDe(msg1.tool_calls[j])
                /\ messages[3 + j].content.tipo = "reporte"

(***************************************************************************)
(* Claims about the two turns of a run, checked under Spec.                *)
(***************************************************************************)
\* the response to the first chat-completion request has been received
PrimeraRecibida ==
    \/ pc \in {"forzada", "procesar", "consultando", "error_args", "error_consulta",
               "turno2", "fin"}
    \/ (pc = "error_http" /\ Len(peticiones) = 2)

\* chat-completion requests sent and neither answered nor failed
PeticionesEnVuelo ==
    Len(peticiones)
    - (IF PrimeraRecibida \/ pc = "error_http" THEN 1 ELSE 0)
    - (IF Len(peticiones) = 2 /\ pc \in {"fin", "error_http"} THEN 1 ELSE 0)

\* C12: a run that completes has made exactly two chat-completion requests,
\* at most one is pending at any time and the second is sent only after
\* the first was answered; a consultation runs only between the first
\* response and the second request.
C12_DosTurnos ==
    /\ Len(peticiones) <= 2
    /\ pc = "fin" => Len(peticiones) = 2
    /\ PeticionesEnVuelo \in {0, 1}
    /\ Len(peticiones) = 2 => PrimeraRecibida
    /\ consultas > 0 => PrimeraRecibida
    /\ cst # "inactiva" => (PrimeraRecibida /\ Len(peticiones) = 1)

\* C12 witness: a completed run of two requests in which two consultations
\* ran and ended.
C12_Witness ==
    /\ pc = "fin"
    /\ Len(peticiones) = 2
    /\ consultas = 2
    /\ cst = "inactiva"

\* one of the three required settings is missing (line 271)
ConfigIncompleta == ~(config.base_url /\ config.api_key /\ config.deployment)

\* C13: with the endpoint, the credential or the deployment missing, the
\* run ends in a configuration error with no chat-completion request sent,
\* no consultation started and no Host process spawned.
C13_ConfigAntesDeTodo ==
    ConfigIncompleta =>
        /\ pc \in {"inicio", "error_config"}
        /\ peticiones = <<>>
        /\ messages = <<>>
        /\ consultas = 0
        /\ cst = "inactiva"
        /\ procesos = 0
        /\ solicitudes = <<>>

\* C13 witness: a run that ended in the configuration error because only
\* the credential is missing.
C13_Witness ==
    /\ pc = "error_config"
    /\ config.base_url /\ config.deployment /\ ~config.api_key
    /\ peticiones = <<>>

(***************************************************************************)
(* Claims about the Host process of a consultation, checked under Spec.    *)
(***************************************************************************)
\* the run has ended, with its text or with an exception
RunTerminado == pc \in {"fin", "error_config", "error_http", "error_args", "error_consulta"}

\* C14: a consultation has its own Host process, spawned when it connects
\* and gone when it ends, with a report or with an exception; never is more
\* than one Host process alive, and none is alive once the run has ended.
C14_UnHostPorConsulta ==
    /\ procesos \in {0, 1}
    /\ cst \in {"listando", "llamando", "esperando"} => procesos = 1
    /\ cst \in {"inactiva", "conectando", "devuelta", "excepcion"} => procesos = 0
    /\ cst = "listando" => solicitudes = <<>>
    /\ cst \in {"llamando", "esperando"} =>
          /\ Len(solicitudes) <= Len(a_consultar)
          /\ \A j \in 1..Len(solicitudes) : solicitudes[j].name = a_consultar[j]
    /\ RunTerminado => (procesos = 0 /\ cst = "inactiva")

\* C14 witness: a finished run whose first response held two tool calls,
\* both consultations, and no Host process is left.
C14_Witness ==
    /\ pc = "fin"
    /\ Len(msg1.tool_calls) = 2
    /\ consultas = 2
    /\ procesos = 0

(***************************************************************************)
(* Claims about the calls of one consultation, checked under SpecConsulta. *)
(***************************************************************************)
\* call_tool requests the Host process has received and not yet answered
EnVuelo == Len(solicitudes) - Len(llamadas)

\* C15: at most one capability invocation of a consultation is pending: a
\* request is sent only when every earlier one was answered, with a reply
\* or with an error, and the answers come in the order of the requests.
C15_UnaEnVuelo ==
    /\ Len(llamadas) <= Len(solicitudes)
    /\ EnVuelo \in {0, 1}
    /\ EnVuelo = 1 <=> cst = "esperando"
    /\ \A j \in 1..Len(llamadas) : llamadas[j].name = solicitudes[j].name

\* C15 witness: the third request of a consultation is pending after the
\* first call was answered with an error and the second with a reply.
C15_Witness ==
    /\ cst = "esperando"
    /\ Len(solicitudes) = 3
    /\ Len(llamadas) = 2
    /\ ~llamadas[1].ok
    /\ llamadas[2].ok

\* C16: a consultation never waits for ever on a Host that has stopped
\* answering: while a call is pending on such a Host, the consultation can
\* still take a step (the wait times out, the call is recorded as a failure
\* and the loop goes on).
C16_EsperaAcotada ==
    (cst = "esperando" /\ colgado) => ENABLED NextConsulta

(***************************************************************************)
(* Claims about the Capability Host, checked under SpecHost.               *)
(***************************************************************************)
\* the positions of the requests that name a registered capability
Registradas ==
    SelectIdx(Len(solicitudes), {q \in 1..Len(solicitudes) : solicitudes[q].name \in Nombres})

\* C17: a request naming no registered capability is answered with a normal
\* result whose text says the capability is unknown, runs no collaborator
\* and raises nothing; a request naming a registered capability runs the
\* collaborator registered under that name, once, with the task given.
C17_DesconocidaEsDato ==
    /\ Len(invocaciones) = Len(Registradas)
    /\ \A j \in 1..Len(Registradas) :
          LET req == solicitudes[Registradas[j]] IN
          /\ especialistas_puente[invocaciones[j].agente].name = req.name
          /\ invocaciones[j].task = (IF req.task = NoDato THEN "" ELSE req.task)
    /\ \A q \in 1..Len(solicitudes) :
          solicitudes[q].name \notin Nombres => llamadas[q].ok
    /\ (solicitudes # <<>> /\ solicitudes[Len(solicitudes)].name \notin Nombres) =>
          /\ resultado.tipo = "contenido"
          /\ resultado.content = << HerramientaDesconocida(solicitudes[Len(solicitudes)].name) >>

\* C17 witness: the Host answered a request that names a key of the
\* registry dictionary, which no agent has as its name, and then a request
\* of a registered capability.
C17_Witness ==
    /\ pc = "host"
    /\ Len(solicitudes) = 2
    /\ solicitudes[1].name = "Oficial de Ciencias"
    /\ solicitudes[2].name = listar_herramientas[1]
    /\ Len(invocaciones) = 1
    /\ llamadas[1].ok

(***************************************************************************)
(* Claims about the Response Classifier, checked under SpecClasificador.   *)
(***************************************************************************)
\* the word occurs in the text, at some position
Aparece(palabra, t) ==
    \E p \in 1..Len(t) :
       /\ p + Len(palabra) - 1 <= Len(t)
       /\ \A i \in 1..Len(palabra) : t[p + i - 1] = palabra[i]

\* the position of the first occurrence of a word that occurs in the text
PrimeraAparicion(palabra, t) ==
    CHOOSE p \in 1..Len(t) :
       /\ SubSeq(t, p, p + Len(palabra) - 1) = palabra
       /\ \A q \in 1..(p - 1) : SubSeq(t, q, q + Len(palabra) - 1) # palabra

\* C18: the risk level follows a fixed priority over the normalized text:
\* CRITICO or CRITICA gives CRÍTICO, else ALTO gives ALTO, else MEDIO gives
\* MEDIO, else BAJO gives BAJO, else NO ESPECIFICADO; a text with ALTO and
\* BAJO gives ALTO whichever comes first, the empty text NO ESPECIFICADO.
C18_PrioridadFija ==
    clasif.fase = "nivel" =>
        LET t == normalizar(clasif.texto)
            critico == Aparece(CRITICO, t) \/ Aparece(CRITICA, t)
        IN  /\ critico => clasif.nivel = "CRÍTICO"
            /\ (~critico /\ Aparece(ALTO, t)) => clasif.nivel = "ALTO"
            /\ (~critico /\ ~Aparece(ALTO, t) /\ Aparece(MEDIO, t)) => clasif.nivel = "MEDIO"
            /\ (~critico /\ ~Aparece(ALTO, t) /\ ~Aparece(MEDIO, t) /\ Aparece(BAJO, t)) =>
                  clasif.nivel = "BAJO"
            /\ (~critico /\ ~Aparece(ALTO, t) /\ ~Aparece(MEDIO, t) /\ ~Aparece(BAJO, t)) =>
                  clasif.nivel = "NO ESPECIFICADO"
            /\ clasif.texto = <<>> => clasif.nivel = "NO ESPECIFICADO"

\* C18 witness: a text in which BAJO comes before ALTO was given the level
\* ALTO.
C18_Witness ==
    /\ clasif.fase = "nivel"
    /\ Aparece(ALTO, normalizar(clasif.texto))
    /\ Aparece(BAJO, normalizar(clasif.texto))
    /\ PrimeraAparicion(BAJO, normalizar(clasif.texto))
          < PrimeraAparicion(ALTO, normalizar(clasif.texto))
    /\ clasif.nivel = "ALTO"

\* the lines of a text that are not blank, trimmed, in their order
LineasNoVacias(t) ==
    LET todas == splitlines(t)
        idx == SelectIdx(Len(todas), {q \in 1..Len(todas) : strip(todas[q]) # <<>>})
    IN  [j \in 1..Len(idx) |-> strip(todas[idx[j]])]

\* the line starts, once normalized, with a structured prefix
Estructurada(l) == \E pre \in PrefijosClave : StartsWith(normalizar(l), pre)

\* r is made of the items of s at increasing positions
RECURSIVE EsSubsecuencia(_, _)
EsSubsecuencia(r, s) ==
    IF r = <<>> THEN TRUE
    ELSE IF s = <<>> THEN FALSE
    ELSE IF Head(r) = Head(s) THEN EsSubsecuencia(Tail(r), Tail(s))
    ELSE EsSubsecuencia(r, Tail(s))

\* C19: the key lines are at most max_lineas non-blank trimmed lines of the
\* text, in their order: the first max_lineas of the lines with a
\* structured prefix when there is one, else the first max_lineas lines;
\* none for a text that is empty or blank.
C19_LineasClave ==
    clasif.fase = "claves" =>
        LET L == LineasNoVacias(clasif.texto)
            r == clasif.claves
            m == clasif.max_lineas
            hay == \E q \in 1..Len(L) : Estructurada(L[q])
            cuantas == Cardinality({q \in 1..Len(L) : Estructurada(L[q])})
        IN  /\ Len(r) <= m
            /\ EsSubsecuencia(r, L)
            /\ \A j \in 1..Len(r) : r[j] # <<>> /\ strip(r[j]) = r[j]
            /\ hay =>
                  /\ \A j \in 1..Len(r) : Estructurada(r[j])
                  /\ Len(r) = (IF cuantas < m THEN cuantas ELSE m)
                  \* no structured line is skipped before the last one returned
                  /\ \A q \in 1..Len(L) :
                        (Estructurada(L[q])
                         /\ Cardinality({i \in 1..q : Estructurada(L[i])}) <= m)
                        => \E j \in 1..Len(r) : r[j] = L[q]
            /\ ~hay => r = SubSeq(L, 1, IF Len(L) < m THEN Len(L) ELSE m)
            /\ strip(clasif.texto) = <<>> => r = <<>>

\* C19 witness: of a text whose first line has no structured prefix and
\* whose second line has one, the only key line is the second.
C19_Witness ==
    /\ clasif.fase = "claves"
    /\ clasif.max_lineas = 1
    /\ Len(LineasNoVacias(clasif.texto)) = 2
    /\ ~Estructurada(LineasNoVacias(clasif.texto)[1])
    /\ Estructurada(LineasNoVacias(clasif.texto)[2])
    /\ clasif.claves = << LineasNoVacias(clasif.texto)[2] >>

\* C20: normalizing a normalized text changes nothing, and the risk level
\* of the normalized text is the risk level of the text.
C20_Idempotente ==
    clasif.fase = "renormalizado" =>
        /\ clasif.renormalizado = clasif.normalizado
        /\ clasif.nivel_normalizado = clasif.nivel

\* C20 witness: a text with an accented lower-case letter and a sharp s,
\* which normalization changes and lengthens, normalized twice.
C20_Witness ==
    /\ clasif.fase = "renormalizado"
    /\ \E j \in 1..Len(clasif.texto) : clasif.texto[j] = "í"
    /\ \E j \in 1..Len(clasif.texto) : clasif.texto[j] = "ß"
    /\ Len(clasif.normalizado) = Len(clasif.texto) + 1
    /\ clasif.renormalizado = clasif.normalizado
    /\ clasif.nivel = "CRÍTICO"

(***************************************************************************)
(* Claims about the configuration file loader, checked under SpecEntorno.  *)
(***************************************************************************)
\* the positions of the lines of the file that assign the key
AsignacionesDe(key) ==
    LET ls == splitlines(entorno.archivo)
    IN  {q \in 1..Len(ls) :
            /\ ~SeIgnora(strip(ls[q]))
            /\ ClaveDe(strip(ls[q])) = key}

\* C21: loading the file never changes a variable that was set when the
\* loader was called, even to the empty text; a variable it adds is
\* assigned in the file and holds the value of its first assignment there.
C21_NoSobrescribe ==
    entorno.fase \in {"cargando", "hecho"} =>
        /\ \A key \in DOMAIN entorno.inicial :
              /\ key \in DOMAIN entorno.environ
              /\ entorno.environ[key] = entorno.inicial[key]
        /\ \A key \in DOMAIN entorno.environ \ DOMAIN entorno.inicial :
              /\ AsignacionesDe(key) # {}
              /\ LET q == CHOOSE q \in AsignacionesDe(key) :
                             \A r \in AsignacionesDe(key) : q <= r
                 IN  entorno.environ[key] =
                        ValorDe(strip(splitlines(entorno.archivo)[q]))
        /\ entorno.fase = "hecho" =>
              \A key \in {<<"A">>, <<"B">>} :
                 AsignacionesDe(key) # {} => key \in DOMAIN entorno.environ

\* C21 witness: A was set to the empty text and stays so although the file
\* assigns it; B was absent, the file assigns it twice and the first, quoted,
\* value is kept without its quotes.
C21_Witness ==
    /\ entorno.fase = "hecho"
    /\ DOMAIN entorno.inicial = {<<"A">>}
    /\ entorno.inicial[<<"A">>] = <<>>
    /\ AsignacionesDe(<<"A">>) # {}
    /\ Cardinality(AsignacionesDe(<<"B">>)) = 2
    /\ entorno.environ[<<"A">>] = <<>>
    /\ entorno.environ[<<"B">>] = <<"3">>

(***************************************************************************)
(* Claims about the messages of the second turn, checked under Spec.       *)
(***************************************************************************)
\* C22: the messages of the second request are the two initial messages,
\* then, when the first response held tool calls, one assistant message
\* with those calls and one tool message per call, in the order of the
\* calls and with the id of its call, or "unknown" for a call without id;
\* when it held none, one assistant message without calls and one tool
\* message with the id "forced".
C22_MensajesDelTurno2 ==
    Len(peticiones) >= 2 =>
        LET m == peticiones[2].messages
            calls == msg1.tool_calls
        IN  /\ Len(m) >= 3
            /\ SubSeq(m, 1, 2) = MensajesIniciales
            /\ m[3].role = "assistant"
            /\ m[3].tool_calls = calls
            /\ IF calls # <<>>
               THEN /\ Len(m) = 3 + Len(calls)
                    /\ \A i \in 1..Len(calls) :
                          /\ m[3 + i].role = "tool"
                          /\ m[3 + i].tool_call_id =
                                (IF calls[i].id = NoDato THEN "unknown" ELSE calls[i].id)
               ELSE /\ Len(m) = 4
                    /\ m[4].role = "tool"
                    /\ m[4].tool_call_id = "forced"

\* C22 witness: the second request was sent after two tool calls, the first
\* one without id and the second one with it.
C22_Witness ==
    /\ Len(peticiones) = 2
    /\ Len(msg1.tool_calls) = 2
    /\ msg1.tool_calls[1].id = NoDato
    /\ msg1.tool_calls[2].id = "call_3"
    /\ peticiones[2].messages[4].tool_call_id = "unknown"
    /\ peticiones[2].messages[5].tool_call_id = "call_3"

\* every tool call of the first response names a tool other than the
\* consultation
TodasAjenas ==
    /\ msg1.tool_calls # <<>>
    /\ \A j \in 1..Len(msg1.tool_calls) : msg1.tool_calls[j].name # HerramientaConsulta

\* C23: a tool call that names another tool starts no consultation and gets
\* a tool message that holds only the unsupported-tool error; it does not
\* end the run: a run whose calls all name other tools goes on to its
\* second request without any consultation.
C23_OtraHerramienta ==
    /\ msg1.tool_calls # <<>> =>
          /\ consultas <=
                Cardinality({j \in 1..Len(msg1.tool_calls) :
                                /\ j <= ci
                                /\ msg1.tool_calls[j].name = HerramientaConsulta})
          /\ \A j \in 1..Len(msg1.tool_calls) :
                (j < ci /\ msg1.tool_calls[j].name # HerramientaConsulta) =>
                   /\ Len(messages) >= 3 + j
                   /\ messages[3 + j].role = "tool"
                   /\ messages[3 + j].content = CErrorTool(msg1.tool_calls[j].name)
    /\ TodasAjenas =>
          /\ consultas = 0
          /\ cst = "inactiva"
          /\ pc \in {"procesar", "turno2", "fin", "error_http"}
          /\ pc # "procesar" => Len(peticiones) = 2
          /\ (pc = "procesar" /\ ci > Len(msg1.tool_calls)) => ENABLED EnviarTurno2

\* C23 witness: a finished run whose two tool calls named another tool: no
\* consultation ran and both calls were answered with the error.
C23_Witness ==
    /\ pc = "fin"
    /\ Len(msg1.tool_calls) = 2
    /\ TodasAjenas
    /\ consultas = 0
    /\ messages[4].content.tipo = "error_tool"
    /\ messages[5].content.tipo = "error_tool"

(***************************************************************************)
(* Claims about the tables of the Capability Host, checked under SpecHost. *)
(***************************************************************************)
\* the names list_tools answers from the registry of the process
NombresListados ==
    [j \in 1..Len(tablas.especialistas_puente) |-> tablas.especialistas_puente[j].name]

\* C24: the names list_tools answers are pairwise distinct and are exactly
\* the keys of the lookup call_tool uses, so a call of a listed name is
\* never answered as unknown; both tables stay as they were built when the
\* process started, whatever requests it has served.
C24_NombresUnicos ==
    /\ \A i, j \in 1..Len(NombresListados) :
          i # j => NombresListados[i] # NombresListados[j]
    /\ Range(NombresListados) = DOMAIN tablas.agentes_por_nombre
    /\ \A n \in DOMAIN tablas.agentes_por_nombre :
          tablas.especialistas_puente[tablas.agentes_por_nombre[n]].name = n
    /\ tablas = TablasAlArrancar
    /\ herramientas_disponibles # <<>> => herramientas_disponibles = NombresListados
    /\ \A q \in 1..Len(solicitudes) :
          solicitudes[q].name \in Range(NombresListados) =>
             \E i \in 1..Len(invocaciones) :
                tablas.especialistas_puente[invocaciones[i].agente].name
                   = solicitudes[q].name
    /\ (/\ resultado.tipo = "contenido"
        /\ solicitudes # <<>>
        /\ solicitudes[Len(solicitudes)].name \in Range(NombresListados)) =>
          resultado.content #
             << HerramientaDesconocida(solicitudes[Len(solicitudes)].name) >>

\* C24 witness: after two calls of the same listed capability, both
\* answered with a reply, list_tools still answers the four names.
C24_Witness ==
    /\ pc = "host"
    /\ Len(solicitudes) = 2
    /\ solicitudes[1].name = listar_herramientas[3]
    /\ solicitudes[2].name = listar_herramientas[3]
    /\ llamadas[1].ok /\ llamadas[2].ok
    /\ Len(invocaciones) = 2
    /\ resultado.tipo = "contenido"
    /\ Len(herramientas_disponibles) = 4

====
